---- MODULE Spec2Model ----
(***************************************************************************)
(* create-mvc-app: the scaffolding CLI (bin/index.js, and the earlier      *)
(* variant of the same CLI without starter template, git or npm steps)     *)
(* and the in-memory user service / controller it generates.               *)
(*                                                                         *)
(* A path is the sequence of its segments below the filesystem root.  The  *)
(* filesystem is the set of directories and the set of files.  One run of  *)
(* the CLI is a straight line of awaited steps inside one try block; pc is *)
(* the position in it, and log is the history of the steps attempted.      *)
(***************************************************************************)
EXTENDS Integers, Sequences, FiniteSets, TLC

VARIABLES
    variant,      \* which CLI file runs: "index" (bin/index.js) or "part0"
    projectName,  \* the positional argument, split at the path separator
    answers,      \* what inquirer.prompt returned
    pre,          \* the target directory before the run
    pc,           \* position in the action callback
    folderIdx,    \* index of the for..of loop over the folder list
    dirs,         \* directories on disk
    files,        \* files on disk
    log,          \* steps attempted so far, in order
    exitCode,     \* process.exitCode (0 while unset)
    spinner,      \* what the ora spinner reported
    users,        \* generated service: the module-level users list
    lastReq,      \* generated controller: the request last handled
    res,          \* generated controller: the response to it
    prevUsers     \* the users list when that request arrived

cliVars == <<variant, projectName, answers, pre, pc, folderIdx, dirs, files,
             log, exitCode, spinner>>
appVars == <<users, lastReq, res, prevUsers>>
vars == <<variant, projectName, answers, pre, pc, folderIdx, dirs, files,
          log, exitCode, spinner, users, lastReq, res, prevUsers>>

----------------------------------------------------------------------------
(* Paths *)

cwd == <<"home", "work">>

RECURSIVE Normalize(_, _)
Normalize(acc, segs) ==
    IF segs = <<>> THEN acc
    ELSE LET s == Head(segs) IN
         Normalize(IF s = ".."
                      THEN (IF acc = <<>> THEN acc
                            ELSE SubSeq(acc, 1, Len(acc) - 1))
                      ELSE IF s \in {"", "."} THEN acc
                      ELSE Append(acc, s),
                   Tail(segs))

Join(base, segs) == Normalize(<<>>, base \o segs)

Prefixes(p) == {SubSeq(p, 1, k) : k \in 0..Len(p)}

Parent(p) == SubSeq(p, 1, Len(p) - 1)

\* p is q or lies below q
Within(p, q) == Len(p) >= Len(q) /\ SubSeq(p, 1, Len(q)) = q

\* p lies strictly below q
Inside(p, q) == Len(p) > Len(q) /\ SubSeq(p, 1, Len(q)) = q

----------------------------------------------------------------------------
(* Inputs *)

Variants == {"index", "part0"}

ProjectNames == {<<"demo">>, <<>>, <<"..", "evil">>, <<"demo", "sub">>}

PreStates == {"absent", "empty", "nonEmpty"}

Answers ==
    [language : {"JavaScript", "TypeScript"},
     architecture : {"Simple MVC", "3-Layer MVC"},
     starter : BOOLEAN, nodemon : BOOLEAN, git : BOOLEAN,
     installDeps : BOOLEAN]

----------------------------------------------------------------------------
(* Values the callback computes from its inputs *)

projectPath == Join(cwd, projectName)

srcDir_asRoot == projectPath

srcDir == Join(projectPath, <<"src">>)

isTS == answers.language = "TypeScript"

baseFolders ==
    IF answers.architecture = "3-Layer MVC"
    THEN <<"controllers", "services", "models", "routes", "config",
           "validation", "utils", "templates">>
    ELSE <<"controllers", "models", "routes", "views">>

appFile == IF isTS THEN "app.ts" ELSE "app.js"

serviceFile == IF isTS THEN "user.service.ts" ELSE "user.service.js"

controllerFile == IF isTS THEN "user.controller.ts" ELSE "user.controller.js"

routesFile == IF isTS THEN "user.routes.ts" ELSE "user.routes.js"

devDeps ==
    IF isTS
    THEN <<"typescript", "ts-node", "nodemon", "@types/node", "@types/express">>
    ELSE IF answers.nodemon THEN <<"nodemon">> ELSE <<>>

\* the target directory and its contents before the run
InitDirs ==
    Prefixes(cwd) \cup (IF pre = "absent" THEN {} ELSE Prefixes(projectPath))

InitFiles == IF pre = "nonEmpty" THEN {projectPath \o <<".env">>} ELSE {}

----------------------------------------------------------------------------
(* Filesystem and process steps.  A step that throws leaves the try block. *)

\* fs-extra ensureDir: mkdir -p; fails on an environment fault or when a
\* component of the path is a file
EnsureDirStep(from, to, path) ==
    /\ pc = from
    /\ \E fault \in BOOLEAN :
         LET ok == ~fault /\ Prefixes(path) \cap files = {} IN
         /\ dirs' = IF ok THEN dirs \cup Prefixes(path) ELSE dirs
         /\ log' = Append(log, [op |-> "mkdir", path |-> path, ok |-> ok,
                                made |-> IF ok THEN Prefixes(path) \ dirs
                                         ELSE {}])
         /\ pc' = IF ok THEN to ELSE "catch"
    /\ UNCHANGED <<variant, projectName, answers, pre, files, exitCode,
                   spinner>>
    /\ UNCHANGED appVars

WriteFileStep_swallow(from, to, path) ==
    /\ pc = from
    /\ \E fault \in BOOLEAN :
         LET ok == ~fault /\ Parent(path) \in dirs /\ path \notin dirs IN
         /\ files' = IF ok THEN files \cup {path} ELSE files
         /\ log' = Append(log, [op |-> "write", path |-> path, ok |-> ok,
                                made |-> {}])
         /\ pc' = to
    /\ UNCHANGED <<variant, projectName, answers, pre, dirs, folderIdx,
                   exitCode, spinner>>
    /\ UNCHANGED appVars

\* fs writeFile / writeJson: creates or replaces the file; fails on an
\* environment fault, when the parent directory is missing (ENOENT) or when
\* the path is a directory (EISDIR)
WriteFileStep(from, to, path) ==
    /\ pc = from
    /\ \E fault \in BOOLEAN :
         LET ok == ~fault /\ Parent(path) \in dirs /\ path \notin dirs IN
         /\ files' = IF ok THEN files \cup {path} ELSE files
         /\ log' = Append(log, [op |-> "write", path |-> path, ok |-> ok,
                                made |-> {}])
         /\ pc' = IF ok THEN to ELSE "catch"
    /\ UNCHANGED <<variant, projectName, answers, pre, dirs, folderIdx,
                   exitCode, spinner>>
    /\ UNCHANGED appVars

\* execa(cmd, args, {cwd: projectPath}): rejects when the command fails
ExecaStep(from, to, cmd) ==
    /\ pc \in from
    /\ \E ok \in BOOLEAN :
         /\ log' = Append(log, [op |-> cmd, path |-> projectPath, ok |-> ok,
                                made |-> {}])
         /\ pc' = IF ok THEN to ELSE "catch"
    /\ UNCHANGED <<variant, projectName, answers, pre, dirs, files,
                   folderIdx, exitCode, spinner>>
    /\ UNCHANGED appVars

----------------------------------------------------------------------------
(* bin/index.js: the action callback *)

AfterApp == IF answers.starter THEN "service" ELSE "pkg"

AfterNodemon == IF isTS THEN "tsconfig" ELSE "readme"

AfterPkg == IF answers.nodemon THEN "nodemon" ELSE AfterNodemon

AfterGit == IF answers.installDeps THEN "npm" ELSE "succeed"

AfterReadme == IF answers.git THEN "git" ELSE AfterGit

AfterNpm == IF Len(devDeps) > 0 THEN "npmDev" ELSE "succeed"

EnsureProject ==
    /\ EnsureDirStep("ensureProject", "gitignore", projectPath)
    /\ UNCHANGED folderIdx

WriteGitignore ==
    WriteFileStep("gitignore", "env", projectPath \o <<".gitignore">>)

WriteEnv == WriteFileStep("env", "ensureSrc", projectPath \o <<".env">>)

EnsureSrc ==
    /\ EnsureDirStep("ensureSrc", "folders", srcDir)
    /\ UNCHANGED folderIdx

EnsureFolder ==
    /\ folderIdx <= Len(baseFolders)
    /\ EnsureDirStep("folders",
                     IF folderIdx = Len(baseFolders) THEN "app" ELSE "folders",
                     srcDir \o <<baseFolders[folderIdx]>>)
    /\ folderIdx' = folderIdx + 1

WriteApp == WriteFileStep("app", AfterApp, srcDir \o <<appFile>>)

WriteService ==
    WriteFileStep("service", "controller", srcDir \o <<"services", serviceFile>>)

WriteController ==
    WriteFileStep("controller", "routes",
                  srcDir \o <<"controllers", controllerFile>>)

WriteRoutes ==
    WriteFileStep("routes", "pkg", srcDir \o <<"routes", routesFile>>)

WritePackageJson ==
    WriteFileStep("pkg", AfterPkg, projectPath \o <<"package.json">>)

WriteNodemonJson ==
    WriteFileStep("nodemon", AfterNodemon, projectPath \o <<"nodemon.json">>)

WriteTsconfig ==
    WriteFileStep("tsconfig", "readme", projectPath \o <<"tsconfig.json">>)

WriteReadme ==
    WriteFileStep("readme", AfterReadme, projectPath \o <<"README.md">>)

GitInit == ExecaStep({"git"}, AfterGit, "git")

NpmInstall == ExecaStep({"npm"}, AfterNpm, "npm")

NpmInstallDev_noAwait ==
    /\ Len(devDeps) > 0
    /\ ExecaStep({"npm", "npmDev"}, "succeed", "npmDev")

NpmInstallDev == ExecaStep({"npmDev"}, "succeed", "npmDev")

Succeed ==
    /\ pc = "succeed"
    /\ spinner' = "succeed"
    /\ pc' = "done"
    /\ UNCHANGED <<variant, projectName, answers, pre, dirs, files, log,
                   folderIdx, exitCode>>
    /\ UNCHANGED appVars

Catch ==
    /\ pc = "catch"
    /\ variant = "index"
    /\ spinner' = "fail"
    /\ exitCode' = 1
    /\ pc' = "done"
    /\ UNCHANGED <<variant, projectName, answers, pre, dirs, files, log,
                   folderIdx>>
    /\ UNCHANGED appVars

----------------------------------------------------------------------------
(* The earlier variant of the CLI: no starter prompt, no src directory, no *)
(* git or npm step.  Its steps throw into its own catch block.             *)

P0EnsureProject ==
    /\ EnsureDirStep("p0_ensureProject", "p0_gitignore", projectPath)
    /\ UNCHANGED folderIdx

P0WriteGitignore ==
    WriteFileStep("p0_gitignore", "p0_env", projectPath \o <<".gitignore">>)

P0WriteEnv == WriteFileStep("p0_env", "p0_app", projectPath \o <<".env">>)

P0WriteApp == WriteFileStep("p0_app", "p0_folders", projectPath \o <<appFile>>)

P0EnsureFolder ==
    /\ folderIdx <= Len(baseFolders)
    /\ EnsureDirStep("p0_folders",
                     IF folderIdx = Len(baseFolders) THEN "p0_succeed"
                     ELSE "p0_folders",
                     projectPath \o <<baseFolders[folderIdx]>>)
    /\ folderIdx' = folderIdx + 1

P0Succeed ==
    /\ pc = "p0_succeed"
    /\ spinner' = "succeed"
    /\ pc' = "done"
    /\ UNCHANGED <<variant, projectName, answers, pre, dirs, files, log,
                   folderIdx, exitCode>>
    /\ UNCHANGED appVars

\* a throw inside the try block of this variant lands in its catch block,
\* which reports the failure and leaves process.exitCode alone
P0Catch ==
    /\ pc = "catch"
    /\ variant = "part0"
    /\ spinner' = "fail"
    /\ pc' = "done"
    /\ UNCHANGED <<variant, projectName, answers, pre, dirs, files, log,
                   folderIdx, exitCode>>
    /\ UNCHANGED appVars

----------------------------------------------------------------------------
(* The generated starter resource: user.service and user.controller.  The  *)
(* JavaScript and TypeScript templates differ in type annotations only.    *)

Undefined == "undefined"

Ids == {"k1", "k2"}          \* values makeId() may return
ReqIds == Ids \cup {"zz"}    \* values of req.params.id
Names == {"ann", Undefined}  \* values of req.body.name
Emails == {"a@x", Undefined} \* values of req.body.email

MaxUsers == 3

\* Array.prototype.findIndex on u.id === id, 1-based; 0 stands for -1
FindIndex(us, id) ==
    IF \E i \in 1..Len(us) : us[i].id = id
    THEN CHOOSE i \in 1..Len(us) :
             /\ us[i].id = id
             /\ \A j \in 1..(i - 1) : us[j].id # id
    ELSE 0

\* users.splice(idx, 1)
Splice1(us, idx) == SubSeq(us, 1, idx - 1) \o SubSeq(us, idx + 1, Len(us))

\* users.splice(idx)
SpliceRest(us, idx) == SubSeq(us, 1, idx - 1)

\* service.create: { id: makeId(), ...data }, pushed and returned
SvcCreate(us, id, data) ==
    LET user == [id |-> id, name |-> data.name, email |-> data.email] IN
    [users |-> Append(us, user), ret |-> <<user>>]

\* service.getById: the first match, or null (the empty sequence)
SvcGetById(us, id) ==
    LET idx == FindIndex(us, id) IN
    IF idx = 0 THEN <<>> ELSE <<us[idx]>>

\* service.update: { ...users[idx], ...data } replaces users[idx]
SvcUpdate(us, id, data) ==
    LET idx == FindIndex(us, id) IN
    IF idx = 0 THEN [users |-> us, ret |-> <<>>]
    ELSE LET user == [id |-> us[idx].id, name |-> data.name,
                      email |-> data.email] IN
         [users |-> [us EXCEPT ![idx] = user], ret |-> <<user>>]

SvcRemove_spliceRest(us, id) ==
    LET idx == FindIndex(us, id) IN
    IF idx = 0 THEN [users |-> us, ret |-> FALSE]
    ELSE [users |-> SpliceRest(us, idx), ret |-> TRUE]

\* service.remove: false when no record has the id, else splice and true
SvcRemove(us, id) ==
    LET idx == FindIndex(us, id) IN
    IF idx = 0 THEN [users |-> us, ret |-> FALSE]
    ELSE [users |-> Splice1(us, idx), ret |-> TRUE]

NoReq == [op |-> "none", id |-> Undefined, name |-> Undefined,
          email |-> Undefined]

NoRes == [status |-> 0, body |-> "none", data |-> <<>>]

NotFound == [status |-> 404, body |-> "message", data |-> <<>>]

CtlList ==
    /\ lastReq' = [NoReq EXCEPT !.op = "list"]
    /\ prevUsers' = users
    /\ res' = [status |-> 200, body |-> "list", data |-> users]
    /\ UNCHANGED users
    /\ UNCHANGED cliVars

CtlGetById ==
    \E id \in ReqIds :
        LET item == SvcGetById(users, id) IN
        /\ lastReq' = [NoReq EXCEPT !.op = "getById", !.id = id]
        /\ prevUsers' = users
        /\ res' = IF item = <<>> THEN NotFound
                  ELSE [status |-> 200, body |-> "user", data |-> item]
        /\ UNCHANGED users
        /\ UNCHANGED cliVars

CtlCreate ==
    \E name \in Names, email \in Emails, id \in Ids :
        LET r == SvcCreate(users, id, [name |-> name, email |-> email]) IN
        /\ Len(users) < MaxUsers
        /\ lastReq' = [NoReq EXCEPT !.op = "create", !.name = name,
                                    !.email = email]
        /\ prevUsers' = users
        /\ users' = r.users
        /\ res' = [status |-> 201, body |-> "user", data |-> r.ret]
        /\ UNCHANGED cliVars

CtlUpdate ==
    \E id \in ReqIds, name \in Names, email \in Emails :
        LET r == SvcUpdate(users, id, [name |-> name, email |-> email]) IN
        /\ lastReq' = [op |-> "update", id |-> id, name |-> name,
                       email |-> email]
        /\ prevUsers' = users
        /\ users' = r.users
        /\ res' = IF r.ret = <<>> THEN NotFound
                  ELSE [status |-> 200, body |-> "user", data |-> r.ret]
        /\ UNCHANGED cliVars

CtlRemove ==
    \E id \in ReqIds :
        LET r == SvcRemove(users, id) IN
        /\ lastReq' = [NoReq EXCEPT !.op = "remove", !.id = id]
        /\ prevUsers' = users
        /\ users' = r.users
        /\ res' = IF ~r.ret THEN NotFound
                  ELSE [status |-> 204, body |-> "none", data |-> <<>>]
        /\ UNCHANGED cliVars

----------------------------------------------------------------------------
(* Specifications *)

\* the generated application has not been started
AppIdle ==
    /\ users = <<>>
    /\ lastReq = NoReq
    /\ res = NoRes
    /\ prevUsers = <<>>

\* one run of the CLI, from the prompt's answers on
Init ==
    /\ variant \in Variants
    /\ projectName \in ProjectNames
    /\ answers \in Answers
    /\ variant = "part0" => ~answers.starter
    /\ pre \in PreStates
    /\ pre = "absent" => projectPath \notin Prefixes(cwd)
    /\ pc = IF variant = "index" THEN "ensureProject" ELSE "p0_ensureProject"
    /\ folderIdx = 1
    /\ dirs = InitDirs
    /\ files = InitFiles
    /\ log = <<>>
    /\ exitCode = 0
    /\ spinner = "spinning"
    /\ AppIdle

Next ==
    \/ EnsureProject
    \/ WriteGitignore
    \/ WriteEnv
    \/ EnsureSrc
    \/ EnsureFolder
    \/ WriteApp
    \/ WriteService
    \/ WriteController
    \/ WriteRoutes
    \/ WritePackageJson
    \/ WriteNodemonJson
    \/ WriteTsconfig
    \/ WriteReadme
    \/ GitInit
    \/ NpmInstall
    \/ NpmInstallDev
    \/ Succeed
    \/ Catch
    \/ P0EnsureProject
    \/ P0WriteGitignore
    \/ P0WriteEnv
    \/ P0WriteApp
    \/ P0EnsureFolder
    \/ P0Succeed
    \/ P0Catch

Spec == Init /\ [][Next]_vars

\* the generated application serving requests; the CLI's state is that of
\* the run that generated it and plays no part
InitStarter ==
    /\ variant = "index"
    /\ projectName = <<"demo">>
    /\ answers = [language |-> "JavaScript", architecture |-> "3-Layer MVC",
                  starter |-> TRUE, nodemon |-> FALSE, git |-> FALSE,
                  installDeps |-> FALSE]
    /\ pre = "absent"
    /\ pc = "ensureProject"
    /\ folderIdx = 1
    /\ dirs = InitDirs
    /\ files = InitFiles
    /\ log = <<>>
    /\ exitCode = 0
    /\ spinner = "spinning"
    /\ AppIdle

NextStarter ==
    \/ CtlList
    \/ CtlGetById
    \/ CtlCreate
    \/ CtlUpdate
    \/ CtlRemove

SpecStarter == InitStarter /\ [][NextStarter]_vars

----------------------------------------------------------------------------
(* What a run has done, read off its log *)

Steps == 1..Len(log)

IsFs(i) == log[i].op \in {"mkdir", "write"}

IsExternal(i) == log[i].op \in {"git", "npm", "npmDev"}

\* directories this run created
Created == UNION {log[i].made : i \in Steps}

\* files this run wrote
Written == {log[i].path : i \in {j \in Steps : log[j].op = "write" /\ log[j].ok}}

Last(p) == p[Len(p)]

FolderNames == {baseFolders[k] : k \in 1..Len(baseFolders)}

StarterFiles == {serviceFile, controllerFile, routesFile}

\* empty, or holding a path separator or a parent-directory segment
InvalidName(name) ==
    \/ Len(name) # 1
    \/ \E k \in 1..Len(name) : name[k] \in {"", ".", ".."}

\* a request the specification accepts: a valid name, and a target directory
\* that is absent or empty
ValidRequest == ~InvalidName(projectName) /\ pre # "nonEmpty"

----------------------------------------------------------------------------
(* Properties *)

\* C1: starting from an absent target directory (valid name), every file write the run
\* attempts is to a directory that an earlier step of the same run created
\* (so no starter file is aimed at a folder the architecture's list lacks).
C1_ParentCreatedBeforeWrite ==
    (pre = "absent" /\ ~InvalidName(projectName)) =>
        \A i \in Steps :
            log[i].op = "write" =>
                \E j \in 1..(i - 1) : Parent(log[i].path) \in log[j].made

\* C2: given a valid name, a target directory that exists and holds an entry
\* makes the run fail before it creates or writes anything, its contents
\* untouched; an absent or empty target is never refused (a failed run then
\* has a failed step).
C2_TargetAlreadyExists ==
    ~InvalidName(projectName) =>
    /\ pre = "nonEmpty" =>
           /\ Created = {}
           /\ Written = {}
           /\ dirs = InitDirs
           /\ files = InitFiles
           /\ spinner # "succeed"
    /\ (pre # "nonEmpty" /\ spinner = "fail") => \E i \in Steps : ~log[i].ok

\* C3: with git and installDeps both chosen, a finished run of an accepted
\* request whose git init
\* failed has still invoked npm install.
C3_ExternalFailuresIsolated ==
    (/\ pc = "done"
     /\ ValidRequest
     /\ answers.git
     /\ answers.installDeps
     /\ \E i \in Steps : log[i].op = "git" /\ ~log[i].ok)
        => \E j \in Steps : log[j].op = "npm"

\* C4: a finished run of an accepted request whose only failed step is an external action exits 0
\* and reports success; a non-zero exit code means a directory or file step
\* failed.
C4_ExternalFailureExitZero ==
    (pc = "done" /\ ValidRequest) =>
        /\ ((\A i \in Steps : IsFs(i) => log[i].ok)
               /\ (\E i \in Steps : IsExternal(i) /\ ~log[i].ok))
              => (exitCode = 0 /\ spinner = "succeed")
        /\ exitCode # 0 => \E i \in Steps : IsFs(i) /\ ~log[i].ok

\* C5: in both variants a finished run of an accepted request in which a directory or file step
\* failed has a non-zero exit code, and one in which every step succeeded
\* has exit code 0.
C5_ExitCodeOnFailure ==
    (pc = "done" /\ ValidRequest) =>
        /\ (\E i \in Steps : IsFs(i) /\ ~log[i].ok) => exitCode # 0
        /\ (\A i \in Steps : log[i].ok) => exitCode = 0

\* C6: a run given an invalid project name creates and writes nothing, and
\* whatever any run creates or writes lies in the target directory, which
\* lies inside the current working directory.
C6_InvalidProjectName ==
    /\ InvalidName(projectName) =>
           (Created = {} /\ Written = {} /\ spinner # "succeed")
    /\ (Created \cup Written # {}) =>
           /\ Inside(Join(cwd, projectName), cwd)
           /\ \A p \in Created \cup Written : Within(p, Join(cwd, projectName))

C9_FailureIsFatal ==
    \A i \in Steps :
        (IsFs(i) /\ ~log[i].ok) =>
            /\ i = Len(log)
            /\ spinner # "succeed"
            /\ pc \in {"catch", "done"}
            /\ \A j \in 1..(i - 1) :
                 /\ log[j].made \subseteq dirs
                 /\ (log[j].op = "write") => log[j].path \in files

\* a run that failed at a file write after creating and writing something
C9_Witness ==
    /\ pc = "done"
    /\ ValidRequest
    /\ spinner = "fail"
    /\ Len(log) > 4
    /\ log[Len(log)].op = "write"
    /\ ~log[Len(log)].ok
    /\ Created # {}
    /\ Written # {}

\* C10: after any request sequence, a remove of an id no record has (the
\* service returns false exactly then) answers 404 and leaves the list as it was; a remove of an id some record has
\* answers 204 with no body and drops exactly one record with that id, the
\* rest staying in place; a create answers with a record holding the given
\* name and email and a generated id, appended to the list.
C10_StarterResource ==
    LET has == \E i \in 1..Len(prevUsers) : prevUsers[i].id = lastReq.id IN
    /\ lastReq.op = "remove" => SvcRemove(prevUsers, lastReq.id).ret = has
    /\ (lastReq.op = "remove" /\ ~has) =>
           (res.status = 404 /\ users = prevUsers)
    /\ (lastReq.op = "remove" /\ has) =>
           /\ res.status = 204
           /\ res.body = "none"
           /\ res.data = <<>>
           /\ Len(users) = Len(prevUsers) - 1
           /\ \E i \in 1..Len(prevUsers) :
                /\ prevUsers[i].id = lastReq.id
                /\ \A j \in 1..(i - 1) : users[j] = prevUsers[j]
                /\ \A j \in i..Len(users) : users[j] = prevUsers[j + 1]
    /\ lastReq.op = "create" =>
           /\ res.status = 201
           /\ Len(res.data) = 1
           /\ res.data[1].name = lastReq.name
           /\ res.data[1].email = lastReq.email
           /\ res.data[1].id \in Ids
           /\ users = Append(prevUsers, res.data[1])

\* a record removed from a list that held others, one with the same id
C10_Witness ==
    /\ lastReq.op = "remove"
    /\ res.status = 204
    /\ Len(prevUsers) = 3
    /\ \E i \in 1..Len(users) : users[i].id = lastReq.id

====
